---- MODULE Spec2Model ----
(***************************************************************************)
(* Collaboration link management and presence tracking                     *)
(* (src/src/utils/collaborationSystem.ts) as a state machine over the      *)
(* localStorage keys the module reads and writes.                          *)
(***************************************************************************)
EXTENDS Integers, Sequences, FiniteSets, TLC

(***************************************************************************)
(* Bounds and input sets of the model                                      *)
(***************************************************************************)
\* number of createLink calls, successful joins and clock advances in a run
MaxOps == 5
\* the same, in the runs that exercise the link registry
RegOps == 3
\* number of createLink calls and of joins begun, in the runs of two tabs
RaceOps == 4
\* number of createLink calls and clock advances in the runs that share and open URLs
UrlOps == 3
\* number of createLink calls and successful joins in the runs with failing calls
FaultOps == 3
\* number of createLink calls and successful joins in the runs over a longer time
ExpiryOps == 3
\* number of owner-index entries and createLink calls in flight, in the runs of two
\* tabs that create links
LinkRaceOps == 3

Docs   == {"d1", "d2"}
Users  == {"a@x.com", "b@x.com"}
Names  == {"Ann", "Bob"}
Titles == {"Budget2024", "Budget2025"}
\* outcomes of Math.random().toString(36).substr(2, 9)
Rand   == {"r1", "r2"}
\* the instants at which operations run, in milliseconds: a start, 4 min 59 s
\* later, and one second after that (5 min after the start)
Instants == <<0, 299000, 300000>>
\* the browser tabs that share the localStorage
Tabs   == {"tab1", "tab2"}

VARIABLES
    collaboration_links,   \* key collaboration_links_<linkId>  -> CollaborationLink
    owner_links,           \* key owner_links_<email>           -> linkId[]
    active_collaborators,  \* key active_collaborators_<doc>    -> ActiveCollaborator[]
    collaboration_access,  \* key collaboration_access_<email>  -> spreadsheetId[]
    notifications,         \* calls of trackActivity, in order
    now,                   \* Date.now(), in milliseconds
    ticks,                 \* number of clock advances so far: now = Instants[ticks + 1]
    pc,                    \* tab -> the call it is in, with the locals of that call
    created,               \* history: the <<owner, document>> pairs of the createLink calls
    member,                \* history: <<document, email>> -> the time of the first successful
                           \* join since the last remove of that email, and the links used since
    last                   \* the last operation and its result

store == <<collaboration_links, owner_links, active_collaborators, collaboration_access>>
vars  == <<collaboration_links, owner_links, active_collaborators, collaboration_access,
           notifications, now, ticks, pc, created, member, last>>

(***************************************************************************)
(* Values                                                                  *)
(***************************************************************************)
\* the null a lookup returns for a key that is not stored
Null == [null |-> TRUE]

\* Date.prototype.toISOString: "YYYY-MM-DDTHH:mm:ss.sssZ", kept as its
\* seconds part and its milliseconds part
toISOString(t) == <<t \div 1000, t % 1000>>

\* new Date(iso).getTime()
getTime(iso) == iso[1] * 1000 + iso[2]

fiveMinutes == 5 * 60 * 1000

\* localStorage.setItem(key, value) on one key namespace
setItem(f, k, v) == [x \in (DOMAIN f) \cup {k} |-> IF x = k THEN v ELSE f[x]]

\* Array.prototype.includes
includes(s, x) == \E i \in 1..Len(s) : s[i] = x

\* Array.prototype.findIndex with the predicate c.email === userEmail
\* (1-based; 0 when there is none)
findIndex(s, userEmail) ==
    IF \E i \in 1..Len(s) : s[i].email = userEmail
    THEN CHOOSE i \in 1..Len(s) :
            /\ s[i].email = userEmail
            /\ \A j \in 1..(i - 1) : s[j].email # userEmail
    ELSE 0

\* mutant: only the first entry is tested against the email
filterOut_firstOnly(s, userEmail) ==
    IF s # <<>> /\ Head(s).email = userEmail THEN Tail(s) ELSE s

\* Array.prototype.filter with the predicate c.email !== userEmail
RECURSIVE filterOut(_, _)
filterOut(s, userEmail) ==
    IF s = <<>> THEN <<>>
    ELSE IF Head(s).email # userEmail
         THEN <<Head(s)>> \o filterOut(Tail(s), userEmail)
         ELSE filterOut(Tail(s), userEmail)

(***************************************************************************)
(* LinkRegistry                                                            *)
(***************************************************************************)
generateLinkId(t, r) == <<"collab", t, r>>

\* mutant: an id that is not stored resolves to some stored link
getCollaborationLink_anyLink(linkId) ==
    IF linkId \in DOMAIN collaboration_links
    THEN collaboration_links[linkId]
    ELSE IF DOMAIN collaboration_links # {}
         THEN collaboration_links[CHOOSE l \in DOMAIN collaboration_links : TRUE]
         ELSE Null

getCollaborationLink(linkId) ==
    IF linkId \in DOMAIN collaboration_links
    THEN collaboration_links[linkId]
    ELSE Null

getOwnerLinks(ownerEmail) ==
    IF ownerEmail \in DOMAIN owner_links THEN owner_links[ownerEmail] ELSE <<>>

isSpreadsheetOwner(spreadsheetId, userEmail) ==
    LET ownerLinks == getOwnerLinks(userEmail) IN
    \E i \in 1..Len(ownerLinks) :
        LET link == getCollaborationLink(ownerLinks[i]) IN
        /\ link # Null
        /\ link.spreadsheetId = spreadsheetId

(***************************************************************************)
(* PresenceTracker                                                         *)
(***************************************************************************)
\* mutant: the window closed on the right (<= instead of <)
withinWindow_inclusive(t, lastActive) == t - getTime(lastActive) <= fiveMinutes

\* the staleness test of a roster read
withinWindow(t, lastActive) == t - getTime(lastActive) < fiveMinutes

\* mutant: the roster read returns the stored flags as they are
recomputeActive_asStored(collaborators, t) == collaborators

\* mutant: the roster read leaves out the entries that have gone stale
recomputeActive_dropsStale(collaborators, t) ==
    SelectSeq([i \in 1..Len(collaborators) |->
                    [collaborators[i] EXCEPT !.isActive = TRUE]],
              LAMBDA c : withinWindow(t, c.lastActive))

\* the roster read on a stored value: isActive recomputed for every entry
recomputeActive(collaborators, t) ==
    [i \in 1..Len(collaborators) |->
        [collaborators[i] EXCEPT !.isActive = withinWindow(t, collaborators[i].lastActive)]]

getActiveCollaborators(spreadsheetId) ==
    IF spreadsheetId \notin DOMAIN active_collaborators
    THEN <<>>
    ELSE recomputeActive(active_collaborators[spreadsheetId], now)

getUserCollaborations(userEmail) ==
    IF userEmail \in DOMAIN collaboration_access
    THEN collaboration_access[userEmail]
    ELSE <<>>

\* mutant: the existing entry is marked active but its lastActive is not refreshed
updateOrPush_staleLastActive(collaborators, collaborator) ==
    LET existingIndex == findIndex(collaborators, collaborator.email) IN
    IF existingIndex >= 1
    THEN [collaborators EXCEPT ![existingIndex] = [@ EXCEPT !.isActive = TRUE]]
    ELSE Append(collaborators, collaborator)

\* mutant: no lookup of an existing entry, the new record is always pushed
updateOrPush_alwaysPush(collaborators, collaborator) ==
    Append(collaborators, collaborator)

\* mutant: a re-join replaces the entry by the new record (joinedAt reset)
updateOrPush_replace(collaborators, collaborator) ==
    LET existingIndex == findIndex(collaborators, collaborator.email) IN
    IF existingIndex >= 1
    THEN [collaborators EXCEPT ![existingIndex] = collaborator]
    ELSE Append(collaborators, collaborator)

\* mutant: a re-join also takes the display name of the new record
updateOrPush_overwritesName(collaborators, collaborator) ==
    LET existingIndex == findIndex(collaborators, collaborator.email) IN
    IF existingIndex >= 1
    THEN [collaborators EXCEPT ![existingIndex] =
            [@ EXCEPT !.name = collaborator.name,
                      !.lastActive = toISOString(now), !.isActive = TRUE]]
    ELSE Append(collaborators, collaborator)

\* mutant: a re-join moves the refreshed entry to the end of the roster
updateOrPush_movesToEnd(collaborators, collaborator) ==
    LET existingIndex == findIndex(collaborators, collaborator.email) IN
    IF existingIndex >= 1
    THEN Append(filterOut(collaborators, collaborator.email),
                [collaborators[existingIndex] EXCEPT
                    !.lastActive = toISOString(now), !.isActive = TRUE])
    ELSE Append(collaborators, collaborator)

\* addCollaborator, "Check if user already exists": update or push
updateOrPush(collaborators, collaborator) ==
    LET existingIndex == findIndex(collaborators, collaborator.email) IN
    IF existingIndex >= 1
    THEN [collaborators EXCEPT ![existingIndex] =
            [@ EXCEPT !.lastActive = toISOString(now), !.isActive = TRUE]]
    ELSE Append(collaborators, collaborator)

\* mutant: the document is appended without the membership test
trackAccess_alwaysAppend(userAccess, userEmail, spreadsheetId) ==
    setItem(collaboration_access, userEmail, Append(userAccess, spreadsheetId))

\* addCollaborator, "Track access for the user": the access index it leaves,
\* given the list read for the user
trackAccess(userAccess, userEmail, spreadsheetId) ==
    IF ~includes(userAccess, spreadsheetId)
    THEN setItem(collaboration_access, userEmail, Append(userAccess, spreadsheetId))
    ELSE collaboration_access

\* addCollaborator: the record built for the joining user
newCollaborator(userEmail, userName) ==
    [email      |-> userEmail,
     name       |-> userName,
     joinedAt   |-> toISOString(now),
     lastActive |-> toISOString(now),
     isActive   |-> TRUE]

\* notifyOwnerOfNewCollaborator: the trackActivity call it makes
notifyOwnerOfNewCollaborator(ownerEmail, collaboratorName, spreadsheetTitle) ==
    [recipient |-> ownerEmail,
     kind      |-> "collaboration_joined",
     message   |-> <<collaboratorName, " joined ", spreadsheetTitle>>]

\* mutant: the heartbeat refreshes lastActive and leaves the flag as read
touch_lastActiveOnly(collaborators, userEmail) ==
    LET i == findIndex(collaborators, userEmail) IN
    [collaborators EXCEPT ![i] = [@ EXCEPT !.lastActive = toISOString(now)]]

\* updateCollaboratorActivity: the roster it writes when the entry exists
touch(collaborators, userEmail) ==
    LET i == findIndex(collaborators, userEmail) IN
    [collaborators EXCEPT ![i] =
        [@ EXCEPT !.lastActive = toISOString(now), !.isActive = TRUE]]

(***************************************************************************)
(* Operations                                                              *)
(***************************************************************************)
\* a tab that is in no call
Idle == [at |-> "idle"]

\* the kind of the last operation and what it returned
Op(op, ret) == [op |-> op, ret |-> ret]

Init ==
    /\ collaboration_links = <<>>
    /\ owner_links = <<>>
    /\ active_collaborators = <<>>
    /\ collaboration_access = <<>>
    /\ notifications = <<>>
    /\ now = Instants[1]
    /\ ticks = 0
    /\ pc = [a \in Tabs |-> Idle]
    /\ created = {}
    /\ member = <<>>
    /\ last = Op("init", FALSE)

\* the number of createCollaborationLink calls so far
RECURSIVE SumLen(_, _)
SumLen(f, S) ==
    IF S = {} THEN 0
    ELSE LET k == CHOOSE k \in S : TRUE IN Len(f[k]) + SumLen(f, S \ {k})

linksIssued == SumLen(owner_links, DOMAIN owner_links)

\* createLink calls, successful joins and clock advances so far
opsUsed == linksIssued + Len(notifications) + ticks

\* the history of memberships after a successful join and after a remove
memberJoined(spreadsheetId, userEmail, linkId) ==
    LET key == <<spreadsheetId, userEmail>> IN
    IF key \in DOMAIN member
    THEN [member EXCEPT ![key].via = @ \cup {linkId}]
    ELSE setItem(member, key, [since |-> now, via |-> {linkId}])

memberRemoved(spreadsheetId, userEmail) ==
    [k \in (DOMAIN member) \ {<<spreadsheetId, userEmail>>} |-> member[k]]

createCollaborationLink(spreadsheetId, spreadsheetTitle, ownerEmail, r) ==
    LET linkId == generateLinkId(now, r)
        link   == [linkId           |-> linkId,
                   spreadsheetId    |-> spreadsheetId,
                   spreadsheetTitle |-> spreadsheetTitle,
                   ownerEmail       |-> ownerEmail,
                   createdAt        |-> toISOString(now)]
    IN
    /\ collaboration_links' = setItem(collaboration_links, linkId, link)
    /\ owner_links' = setItem(owner_links, ownerEmail,
                              Append(getOwnerLinks(ownerEmail), linkId))
    /\ created' = created \cup {<<ownerEmail, spreadsheetId>>}
    /\ last' = Op("createLink", TRUE)
    /\ UNCHANGED <<active_collaborators, collaboration_access, notifications, now, ticks, pc,
                   member>>

\* mutant: the owner is notified of the first join of a user only
addCollaborator_notifiesFirstJoinOnly(linkId, userEmail, userName) ==
    LET link == getCollaborationLink(linkId) IN
    IF link = Null
    THEN /\ last' = Op("join", FALSE)
         /\ UNCHANGED <<collaboration_links, owner_links, active_collaborators,
                        collaboration_access, notifications, now, ticks, pc,
                        created, member>>
    ELSE LET existing == getActiveCollaborators(link.spreadsheetId) IN
         /\ active_collaborators' =
                setItem(active_collaborators, link.spreadsheetId,
                        updateOrPush(existing, newCollaborator(userEmail, userName)))
         /\ collaboration_access' =
                trackAccess(getUserCollaborations(userEmail), userEmail,
                            link.spreadsheetId)
         /\ notifications' =
                IF findIndex(existing, userEmail) >= 1
                THEN notifications
                ELSE Append(notifications,
                            notifyOwnerOfNewCollaborator(link.ownerEmail, userName,
                                                         link.spreadsheetTitle))
         /\ last' = Op("join", TRUE)
         /\ member' = memberJoined(link.spreadsheetId, userEmail, linkId)
         /\ UNCHANGED <<collaboration_links, owner_links, now, ticks, pc, created>>

addCollaborator(linkId, userEmail, userName) ==
    LET link == getCollaborationLink(linkId) IN
    IF link = Null
    THEN /\ last' = Op("join", FALSE)
         /\ UNCHANGED <<collaboration_links, owner_links, active_collaborators,
                        collaboration_access, notifications, now, ticks, pc,
                        created, member>>
    ELSE LET collaborator == newCollaborator(userEmail, userName)
             collaborators == updateOrPush(getActiveCollaborators(link.spreadsheetId),
                                           collaborator)
         IN
         /\ active_collaborators' =
                setItem(active_collaborators, link.spreadsheetId, collaborators)
         /\ collaboration_access' =
                trackAccess(getUserCollaborations(userEmail), userEmail,
                            link.spreadsheetId)
         /\ notifications' =
                Append(notifications,
                       notifyOwnerOfNewCollaborator(link.ownerEmail, userName,
                                                    link.spreadsheetTitle))
         /\ last' = Op("join", TRUE)
         /\ member' = memberJoined(link.spreadsheetId, userEmail, linkId)
         /\ UNCHANGED <<collaboration_links, owner_links, now, ticks, pc, created>>

\* mutant: the roster read is written back whether the entry was found or not
updateCollaboratorActivity_alwaysWrites(spreadsheetId, userEmail) ==
    LET collaborators == getActiveCollaborators(spreadsheetId) IN
    /\ active_collaborators' =
            setItem(active_collaborators, spreadsheetId,
                    IF findIndex(collaborators, userEmail) >= 1
                    THEN touch(collaborators, userEmail)
                    ELSE collaborators)
    /\ last' = Op("heartbeat", TRUE)
    /\ UNCHANGED <<collaboration_links, owner_links, collaboration_access,
                   notifications, now, ticks, pc, created, member>>

updateCollaboratorActivity(spreadsheetId, userEmail) ==
    LET collaborators == getActiveCollaborators(spreadsheetId) IN
    /\ IF findIndex(collaborators, userEmail) >= 1
       THEN active_collaborators' =
                setItem(active_collaborators, spreadsheetId,
                        touch(collaborators, userEmail))
       ELSE UNCHANGED active_collaborators
    /\ last' = Op("heartbeat", TRUE)
    /\ UNCHANGED <<collaboration_links, owner_links, collaboration_access,
                   notifications, now, ticks, pc, created, member>>

\* mutant: the email is filtered out of the roster of every document
removeCollaborator_fromEveryRoster(spreadsheetId, userEmail) ==
    /\ active_collaborators' =
            [d \in (DOMAIN active_collaborators) \cup {spreadsheetId} |->
                filterOut(getActiveCollaborators(d), userEmail)]
    /\ member' = memberRemoved(spreadsheetId, userEmail)
    /\ last' = Op("remove", TRUE)
    /\ UNCHANGED <<collaboration_links, owner_links, collaboration_access,
                   notifications, now, ticks, pc, created>>

\* mutant: the remove also takes the document out of the access index of the user
removeCollaborator_dropsAccess(spreadsheetId, userEmail) ==
    LET collaborators == getActiveCollaborators(spreadsheetId)
        filtered == filterOut(collaborators, userEmail)
        userAccess == getUserCollaborations(userEmail)
    IN
    /\ active_collaborators' = setItem(active_collaborators, spreadsheetId, filtered)
    /\ collaboration_access' =
            IF includes(userAccess, spreadsheetId)
            THEN setItem(collaboration_access, userEmail,
                         SelectSeq(userAccess, LAMBDA x : x # spreadsheetId))
            ELSE collaboration_access
    /\ member' = memberRemoved(spreadsheetId, userEmail)
    /\ last' = Op("remove", TRUE)
    /\ UNCHANGED <<collaboration_links, owner_links, notifications, now, ticks, pc,
                   created>>

removeCollaborator(spreadsheetId, userEmail) ==
    LET collaborators == getActiveCollaborators(spreadsheetId)
        filtered == filterOut(collaborators, userEmail)
    IN
    /\ active_collaborators' = setItem(active_collaborators, spreadsheetId, filtered)
    /\ member' = memberRemoved(spreadsheetId, userEmail)
    /\ last' = Op("remove", TRUE)
    /\ UNCHANGED <<collaboration_links, owner_links, collaboration_access,
                   notifications, now, ticks, pc, created>>

\* the clock advances between two operations
Tick ==
    /\ ticks + 1 < Len(Instants)
    /\ now' = Instants[ticks + 2]
    /\ ticks' = ticks + 1
    /\ last' = Op("tick", TRUE)
    /\ UNCHANGED <<collaboration_links, owner_links, active_collaborators,
                   collaboration_access, notifications, pc, created, member>>

\* the link ids a client can present: the stored ones and the ones the
\* registry could issue at this instant
LinkIdInputs == (DOMAIN collaboration_links) \cup {generateLinkId(now, r) : r \in Rand}

(***************************************************************************)
(* Spec: presence tracking.  Links are shared by one owner under one title *)
(* and one random suffix, so that two links issued in the same millisecond *)
(* collide; joins, heartbeats, removes and the clock are unrestricted.     *)
(***************************************************************************)
CreateLink ==
    /\ opsUsed < MaxOps
    /\ \E d \in Docs : createCollaborationLink(d, "Budget2024", "a@x.com", "r1")

Join ==
    \E l \in LinkIdInputs, u \in Users, n \in Names :
        /\ getCollaborationLink(l) = Null \/ opsUsed < MaxOps
        /\ addCollaborator(l, u, n)

Heartbeat == \E d \in Docs, u \in Users : updateCollaboratorActivity(d, u)

Remove == \E d \in Docs, u \in Users : removeCollaborator(d, u)

Advance == opsUsed < MaxOps /\ Tick

Next == CreateLink \/ Join \/ Heartbeat \/ Remove \/ Advance

Spec == Init /\ [][Next]_vars

(***************************************************************************)
(* SpecRegistry: the link registry.  Links are created for every document, *)
(* title, owner and random suffix; one display name joins.                 *)
(***************************************************************************)
RegCreateLink ==
    /\ opsUsed < RegOps
    /\ \E d \in Docs, t \in Titles, o \in Users, r \in Rand :
            createCollaborationLink(d, t, o, r)

RegJoin ==
    \E l \in LinkIdInputs, u \in Users :
        /\ getCollaborationLink(l) = Null \/ opsUsed < RegOps
        /\ addCollaborator(l, u, "Ann")

RegAdvance == opsUsed < RegOps /\ Tick

RegNext == RegCreateLink \/ RegJoin \/ Heartbeat \/ Remove \/ RegAdvance

SpecRegistry == Init /\ [][RegNext]_vars

(***************************************************************************)
(* SpecRace: two tabs on one localStorage.  A call of addCollaborator,     *)
(* updateCollaboratorActivity or removeCollaborator runs as the sequence   *)
(* of its localStorage reads and writes, and the steps of the two tabs     *)
(* interleave.  One document is shared, each tab is signed in under its    *)
(* own display name, and the clock stands still.                           *)
(***************************************************************************)
RaceDocs == {"d1"}

\* the display name each tab is signed in with
displayName == [a \in Tabs |-> IF a = "tab1" THEN "Ann" ELSE "Bob"]

\* the joins that have been begun and have not returned
joinsInFlight == Cardinality({a \in Tabs : pc[a].at \notin {"idle", "heartbeatWrite", "removeWrite"}})

raceOpsUsed == linksIssued + Len(notifications) + joinsInFlight

goto(a, frame) == pc' = [pc EXCEPT ![a] = frame]

\* addCollaborator, lines 86-87: the link is looked up
JoinResolve(a, linkId, userEmail, userName) ==
    LET link == getCollaborationLink(linkId) IN
    /\ pc[a] = Idle
    /\ IF link = Null
       THEN /\ last' = Op("join", FALSE)
            /\ UNCHANGED pc
       ELSE /\ raceOpsUsed < RaceOps
            /\ goto(a, [at |-> "joinRead", linkId |-> linkId, link |-> link,
                        email |-> userEmail, name |-> userName])
            /\ UNCHANGED last
    /\ UNCHANGED <<collaboration_links, owner_links, active_collaborators,
                   collaboration_access, notifications, now, ticks, created, member>>

\* mutant: the owner is notified as soon as the roster has been read, before
\* the roster and the index are written
JoinRead_dispatchesBeforeWrite(a) ==
    /\ pc[a].at = "joinRead"
    /\ goto(a, [at |-> "joinWrite", linkId |-> pc[a].linkId, link |-> pc[a].link,
                email |-> pc[a].email, name |-> pc[a].name,
                collaborators |->
                    updateOrPush(getActiveCollaborators(pc[a].link.spreadsheetId),
                                 newCollaborator(pc[a].email, pc[a].name))])
    /\ notifications' =
            Append(notifications,
                   notifyOwnerOfNewCollaborator(pc[a].link.ownerEmail, pc[a].name,
                                                pc[a].link.spreadsheetTitle))
    /\ UNCHANGED <<collaboration_links, owner_links, active_collaborators,
                   collaboration_access, now, ticks, created, member, last>>

\* lines 89-112: the roster is read and the entry updated or pushed
JoinRead(a) ==
    /\ pc[a].at = "joinRead"
    /\ goto(a, [at |-> "joinWrite", linkId |-> pc[a].linkId, link |-> pc[a].link,
                email |-> pc[a].email, name |-> pc[a].name,
                collaborators |->
                    updateOrPush(getActiveCollaborators(pc[a].link.spreadsheetId),
                                 newCollaborator(pc[a].email, pc[a].name))])
    /\ UNCHANGED <<collaboration_links, owner_links, active_collaborators,
                   collaboration_access, notifications, now, ticks, created, member,
                   last>>

\* mutant: the write re-reads the roster and patches the entry of the user
\* into it, instead of storing the array read before
JoinWrite_patchesStoredRoster(a) ==
    /\ pc[a].at = "joinWrite"
    /\ active_collaborators' =
            setItem(active_collaborators, pc[a].link.spreadsheetId,
                    updateOrPush(getActiveCollaborators(pc[a].link.spreadsheetId),
                                 newCollaborator(pc[a].email, pc[a].name)))
    /\ member' = memberJoined(pc[a].link.spreadsheetId, pc[a].email, pc[a].linkId)
    /\ goto(a, [at |-> "joinAccessRead", linkId |-> pc[a].linkId, link |-> pc[a].link,
                email |-> pc[a].email, name |-> pc[a].name,
                collaborators |-> pc[a].collaborators])
    /\ UNCHANGED <<collaboration_links, owner_links, collaboration_access,
                   notifications, now, ticks, created, last>>

\* lines 114-118: the roster is written
JoinWrite(a) ==
    /\ pc[a].at = "joinWrite"
    /\ active_collaborators' =
            setItem(active_collaborators, pc[a].link.spreadsheetId, pc[a].collaborators)
    /\ member' = memberJoined(pc[a].link.spreadsheetId, pc[a].email, pc[a].linkId)
    /\ goto(a, [at |-> "joinAccessRead", linkId |-> pc[a].linkId, link |-> pc[a].link,
                email |-> pc[a].email, name |-> pc[a].name,
                collaborators |-> pc[a].collaborators])
    /\ UNCHANGED <<collaboration_links, owner_links, collaboration_access,
                   notifications, now, ticks, created, last>>

\* line 121: the collaborations index of the user is read
JoinAccessRead(a) ==
    /\ pc[a].at = "joinAccessRead"
    /\ goto(a, [at |-> "joinAccessWrite", linkId |-> pc[a].linkId, link |-> pc[a].link,
                email |-> pc[a].email, name |-> pc[a].name,
                collaborators |-> pc[a].collaborators,
                userAccess |-> getUserCollaborations(pc[a].email)])
    /\ UNCHANGED <<collaboration_links, owner_links, active_collaborators,
                   collaboration_access, notifications, now, ticks, created, member,
                   last>>

\* lines 122-128: the index is written when the document is not in it
JoinAccessWrite(a) ==
    /\ pc[a].at = "joinAccessWrite"
    /\ collaboration_access' =
            trackAccess(pc[a].userAccess, pc[a].email, pc[a].link.spreadsheetId)
    /\ goto(a, [at |-> "joinNotify", linkId |-> pc[a].linkId, link |-> pc[a].link,
                email |-> pc[a].email, name |-> pc[a].name,
                collaborators |-> pc[a].collaborators])
    /\ UNCHANGED <<collaboration_links, owner_links, active_collaborators,
                   notifications, now, ticks, created, member, last>>

\* lines 130-133: the owner is notified and the call returns true
JoinNotify(a) ==
    /\ pc[a].at = "joinNotify"
    /\ notifications' =
            Append(notifications,
                   notifyOwnerOfNewCollaborator(pc[a].link.ownerEmail, pc[a].name,
                                                pc[a].link.spreadsheetTitle))
    /\ last' = Op("join", TRUE)
    /\ goto(a, Idle)
    /\ UNCHANGED <<collaboration_links, owner_links, active_collaborators,
                   collaboration_access, now, ticks, created, member>>

\* updateCollaboratorActivity, line 162: the roster is read
HeartbeatRead(a, spreadsheetId, userEmail) ==
    /\ pc[a] = Idle
    /\ goto(a, [at |-> "heartbeatWrite", doc |-> spreadsheetId, email |-> userEmail,
                collaborators |-> getActiveCollaborators(spreadsheetId)])
    /\ UNCHANGED <<collaboration_links, owner_links, active_collaborators,
                   collaboration_access, notifications, now, ticks, created, member,
                   last>>

\* lines 163-173: the entry, when found, is refreshed and the roster written
\* (the call returns nothing)
HeartbeatWrite(a) ==
    /\ pc[a].at = "heartbeatWrite"
    /\ IF findIndex(pc[a].collaborators, pc[a].email) >= 1
       THEN active_collaborators' =
                setItem(active_collaborators, pc[a].doc,
                        touch(pc[a].collaborators, pc[a].email))
       ELSE UNCHANGED active_collaborators
    /\ goto(a, Idle)
    /\ UNCHANGED <<collaboration_links, owner_links, collaboration_access,
                   notifications, now, ticks, created, member, last>>

\* removeCollaborator, lines 183-184: the roster is read and filtered
RemoveRead(a, spreadsheetId, userEmail) ==
    /\ pc[a] = Idle
    /\ goto(a, [at |-> "removeWrite", doc |-> spreadsheetId, email |-> userEmail,
                filtered |-> filterOut(getActiveCollaborators(spreadsheetId), userEmail)])
    /\ UNCHANGED <<collaboration_links, owner_links, active_collaborators,
                   collaboration_access, notifications, now, ticks, created, member,
                   last>>

\* lines 186-189: the filtered roster is written
\* (the call returns nothing)
RemoveWrite(a) ==
    /\ pc[a].at = "removeWrite"
    /\ active_collaborators' = setItem(active_collaborators, pc[a].doc, pc[a].filtered)
    /\ member' = memberRemoved(pc[a].doc, pc[a].email)
    /\ goto(a, Idle)
    /\ UNCHANGED <<collaboration_links, owner_links, collaboration_access,
                   notifications, now, ticks, created, last>>

RaceCreateLink ==
    /\ raceOpsUsed < RaceOps
    /\ \E d \in RaceDocs, r \in Rand :
            createCollaborationLink(d, "Budget2024", "a@x.com", r)

RaceJoin ==
    \E a \in Tabs :
        \/ \E l \in LinkIdInputs, u \in Users : JoinResolve(a, l, u, displayName[a])
        \/ JoinRead(a)
        \/ JoinWrite(a)
        \/ JoinAccessRead(a)
        \/ JoinAccessWrite(a)
        \/ JoinNotify(a)

RaceHeartbeat ==
    \E a \in Tabs :
        \/ \E d \in RaceDocs, u \in Users : HeartbeatRead(a, d, u)
        \/ HeartbeatWrite(a)

RaceRemove ==
    \E a \in Tabs :
        \/ \E d \in RaceDocs, u \in Users : RemoveRead(a, d, u)
        \/ RemoveWrite(a)

RaceNext == RaceCreateLink \/ RaceJoin \/ RaceHeartbeat \/ RaceRemove

SpecRace == Init /\ [][RaceNext]_vars

(***************************************************************************)
(* Link URLs.  A string is the sequence of its pieces: the characters that *)
(* URL parsing looks at ("?", "#", "&", "=", "+", percent escapes) are     *)
(* pieces of their own, the text between them is kept in whole pieces.     *)
(***************************************************************************)
\* a string value, as a function returns it (so that it compares with null)
String(pieces) == [text |-> pieces]

\* the template literal of generateLinkId spelled out: collab_<time>_<suffix>
linkIdText(linkId) == <<linkId[1], "_", ToString(linkId[2]), "_", linkId[3]>>

\* the first position of a piece in a string, 0 when it does not occur
indexOf(s, c) ==
    IF \E i \in 1..Len(s) : s[i] = c
    THEN CHOOSE i \in 1..Len(s) : s[i] = c /\ \A j \in 1..(i - 1) : s[j] # c
    ELSE 0

\* String.prototype.split on a separator
RECURSIVE split(_, _)
split(s, sep) ==
    LET i == indexOf(s, sep) IN
    IF i = 0 THEN <<s>>
    ELSE <<SubSeq(s, 1, i - 1)>> \o split(SubSeq(s, i + 1, Len(s)), sep)

\* window.location.search of a URL: from the first "?" to the fragment,
\* empty when there is no query
search(href) ==
    LET h == indexOf(href, "#")
        noFragment == IF h = 0 THEN href ELSE SubSeq(href, 1, h - 1)
        q == indexOf(noFragment, "?")
    IN IF q = 0 \/ q = Len(noFragment) THEN <<>>
       ELSE SubSeq(noFragment, q, Len(noFragment))

\* the decoding URLSearchParams applies to names and values
percentDecode(c) ==
    CASE c = "+"   -> " "
      [] c = "%20" -> " "
      [] c = "%2B" -> "+"
      [] c = "%26" -> "&"
      [] c = "%3D" -> "="
      [] OTHER     -> c

decode(s) == [i \in 1..Len(s) |-> percentDecode(s[i])]

\* new URLSearchParams(init): the list of name/value pairs
URLSearchParams(init) ==
    LET query == IF init # <<>> /\ Head(init) = "?" THEN Tail(init) ELSE init
        parts == SelectSeq(split(query, "&"), LAMBDA x : x # <<>>)
    IN [i \in 1..Len(parts) |->
            LET e == indexOf(parts[i], "=") IN
            IF e = 0
            THEN [name |-> decode(parts[i]), value |-> <<>>]
            ELSE [name  |-> decode(SubSeq(parts[i], 1, e - 1)),
                  value |-> decode(SubSeq(parts[i], e + 1, Len(parts[i])))]]

\* URLSearchParams.prototype.get: the value of the first pair of that name
paramsGet(params, name) ==
    IF \E i \in 1..Len(params) : params[i].name = name
    THEN String(params[CHOOSE i \in 1..Len(params) :
                        /\ params[i].name = name
                        /\ \A j \in 1..(i - 1) : params[j].name # name].value)
    ELSE Null

\* mutant: the link id is put under another parameter name
getCollaborationLinkUrl_otherParameter(linkId, baseUrl) ==
    <<baseUrl, "?", "link", "=">> \o linkIdText(linkId)

\* getCollaborationLinkUrl, with window.location.origin as baseUrl
getCollaborationLinkUrl(linkId, baseUrl) ==
    <<baseUrl, "?", "collab", "=">> \o linkIdText(linkId)

\* parseCollaborationLink, with the URL the window is at as href
parseCollaborationLink(href) == paramsGet(URLSearchParams(search(href)), <<"collab">>)

Origins == {"https://x", "http://localhost:3000"}

\* URLs a window can be opened at, besides the ones the application hands out
SampleUrls ==
    { <<"https://x">>,
      <<"https://x", "?">>,
      <<"https://x", "?", "collab", "=", "abc123">>,
      <<"https://x", "?", "tab", "=", "home">>,
      <<"https://x", "?", "tab", "=", "home", "&", "collab", "=", "abc123">>,
      <<"https://x", "?", "collab", "=", "abc", "+", "123">>,
      <<"https://x", "?", "collab", "=", "abc", "%2B", "123">>,
      <<"https://x", "?", "collab", "=", "abc123", "&", "collab", "=", "xyz">>,
      <<"https://x", "?", "collab">>,
      <<"https://x", "#", "?", "collab", "=", "abc123">>,
      <<"https://x", "?", "collab", "=", "abc123", "#", "top">> }

(***************************************************************************)
(* SpecUrl: links are created, their URLs are handed out, and windows are  *)
(* opened at those URLs and at others.                                     *)
(***************************************************************************)
UrlCreateLink ==
    /\ linksIssued + ticks < UrlOps
    /\ \E r \in Rand : createCollaborationLink("d1", "Budget2024", "a@x.com", r)

UrlAdvance == linksIssued + ticks < UrlOps /\ Tick

\* the owner asks for the URL of one of the stored links
ShareLink ==
    \E l \in DOMAIN collaboration_links, o \in Origins :
        /\ last' = Op("linkUrl", [linkId |-> l, url |-> getCollaborationLinkUrl(l, o)])
        /\ UNCHANGED <<collaboration_links, owner_links, active_collaborators,
                       collaboration_access, notifications, now, ticks, pc, created,
                       member>>

\* a window is opened at a URL and the application parses it
OpenUrl ==
    \E href \in SampleUrls \cup {getCollaborationLinkUrl(l, o) :
                                    l \in DOMAIN collaboration_links, o \in Origins} :
        /\ last' = Op("parse", [href |-> href, linkId |-> parseCollaborationLink(href)])
        /\ UNCHANGED <<collaboration_links, owner_links, active_collaborators,
                       collaboration_access, notifications, now, ticks, pc, created,
                       member>>

UrlNext == UrlCreateLink \/ UrlAdvance \/ ShareLink \/ OpenUrl

SpecUrl == Init /\ [][UrlNext]_vars

(***************************************************************************)
(* SpecFault: calls that throw.  localStorage.setItem throws when the      *)
(* quota is exceeded, and the dispatch of the notification (the require of *)
(* ./notificationSystem or trackActivity itself) can throw; no function of *)
(* the module catches an exception, so the call ends at the statement that *)
(* throws, with the writes made before it in the store.  One document is   *)
(* shared through one link id, and the clock stands still.                 *)
(***************************************************************************)
\* a call that ended with an exception instead of a return
Thrown(op, failAt) == [op |-> op, threw |-> failAt]

\* createCollaborationLink in which a setItem throws: the one of the link
\* record (line 49) or the one of the owner index (line 57)
createCollaborationLinkThrows(spreadsheetId, spreadsheetTitle, ownerEmail, r, failAt) ==
    LET linkId == generateLinkId(now, r)
        link   == [linkId           |-> linkId,
                   spreadsheetId    |-> spreadsheetId,
                   spreadsheetTitle |-> spreadsheetTitle,
                   ownerEmail       |-> ownerEmail,
                   createdAt        |-> toISOString(now)]
    IN
    /\ failAt \in {"collaboration_links", "owner_links"}
    /\ collaboration_links' =
            IF failAt = "collaboration_links"
            THEN collaboration_links
            ELSE setItem(collaboration_links, linkId, link)
    /\ last' = Thrown("createLink", failAt)
    /\ UNCHANGED <<owner_links, active_collaborators, collaboration_access,
                   notifications, now, ticks, pc, created, member>>

\* addCollaborator on a stored link in which a statement throws: the setItem
\* of the roster (line 115), the setItem of the collaborations index
\* (line 124, reached when the document is not in the index) or the
\* notification of the owner (line 131)
addCollaboratorThrows(linkId, userEmail, userName, failAt) ==
    LET link == getCollaborationLink(linkId) IN
    /\ link # Null
    /\ failAt \in {"active_collaborators", "collaboration_access", "notify"}
    /\ failAt = "collaboration_access" =>
            ~includes(getUserCollaborations(userEmail), link.spreadsheetId)
    /\ IF failAt = "active_collaborators"
       THEN UNCHANGED <<active_collaborators, member>>
       ELSE /\ active_collaborators' =
                    setItem(active_collaborators, link.spreadsheetId,
                            updateOrPush(getActiveCollaborators(link.spreadsheetId),
                                         newCollaborator(userEmail, userName)))
            /\ member' = memberJoined(link.spreadsheetId, userEmail, linkId)
    /\ collaboration_access' =
            IF failAt = "notify"
            THEN trackAccess(getUserCollaborations(userEmail), userEmail,
                             link.spreadsheetId)
            ELSE collaboration_access
    /\ last' = Thrown("join", failAt)
    /\ UNCHANGED <<collaboration_links, owner_links, notifications, now, ticks, pc,
                   created>>

FaultCreateLink ==
    /\ linksIssued + Len(notifications) < FaultOps
    /\ createCollaborationLink("d1", "Budget2024", "a@x.com", "r1")

FaultJoin ==
    \E l \in LinkIdInputs, u \in Users :
        /\ getCollaborationLink(l) = Null \/ linksIssued + Len(notifications) < FaultOps
        /\ addCollaborator(l, u, "Ann")

CreateLinkThrows ==
    \E failAt \in {"collaboration_links", "owner_links"} :
        createCollaborationLinkThrows("d1", "Budget2024", "a@x.com", "r1", failAt)

JoinThrows ==
    \E l \in DOMAIN collaboration_links, u \in Users,
       failAt \in {"active_collaborators", "collaboration_access", "notify"} :
        addCollaboratorThrows(l, u, "Ann", failAt)

FaultNext == FaultCreateLink \/ FaultJoin \/ CreateLinkThrows \/ JoinThrows \/ Remove

SpecFault == Init /\ [][FaultNext]_vars

(***************************************************************************)
(* SpecExpiry: presence over a longer time.  One link of one document is   *)
(* shared; the clock runs past the staleness window of an entry and on.    *)
(***************************************************************************)
\* the instants of these runs: a start, 4 min 59 s, 5 min, one millisecond
\* more, and 10 min after the start
ExpiryInstants == <<0, 299000, 300000, 300001, 600000>>

\* the clock advances between two operations
Elapse ==
    /\ ticks + 1 < Len(ExpiryInstants)
    /\ now' = ExpiryInstants[ticks + 2]
    /\ ticks' = ticks + 1
    /\ last' = Op("tick", TRUE)
    /\ UNCHANGED <<collaboration_links, owner_links, active_collaborators,
                   collaboration_access, notifications, pc, created, member>>

ExpiryCreateLink ==
    /\ linksIssued + Len(notifications) < ExpiryOps
    /\ createCollaborationLink("d1", "Budget2024", "a@x.com", "r1")

ExpiryJoin ==
    \E l \in LinkIdInputs, u \in Users :
        /\ getCollaborationLink(l) = Null \/ linksIssued + Len(notifications) < ExpiryOps
        /\ addCollaborator(l, u, "Ann")

ExpiryNext == ExpiryCreateLink \/ ExpiryJoin \/ Heartbeat \/ Remove \/ Elapse

SpecExpiry == Init /\ [][ExpiryNext]_vars

(***************************************************************************)
(* SpecLinkRace: two tabs on one localStorage create links.  A call of     *)
(* createCollaborationLink runs as the sequence of its localStorage        *)
(* accesses: the link record is saved, the owner index is read, the owner  *)
(* index is written; the steps of the two tabs interleave.  The clock      *)
(* stands still.                                                           *)
(***************************************************************************)
createsInFlight == Cardinality({a \in Tabs : pc[a] # Idle})

\* mutant: the call goes on to the owner index without saving the link record
CreateLinkSave_skipsRecord(a, spreadsheetId, spreadsheetTitle, ownerEmail, r) ==
    LET linkId == generateLinkId(now, r)
        link   == [linkId           |-> linkId,
                   spreadsheetId    |-> spreadsheetId,
                   spreadsheetTitle |-> spreadsheetTitle,
                   ownerEmail       |-> ownerEmail,
                   createdAt        |-> toISOString(now)]
    IN
    /\ pc[a] = Idle
    /\ goto(a, [at |-> "createOwnerRead", link |-> link])
    /\ UNCHANGED <<collaboration_links, owner_links, active_collaborators,
                   collaboration_access, notifications, now, ticks, created, member,
                   last>>

\* createCollaborationLink, lines 39-52: the id is generated and the link
\* record saved
CreateLinkSave(a, spreadsheetId, spreadsheetTitle, ownerEmail, r) ==
    LET linkId == generateLinkId(now, r)
        link   == [linkId           |-> linkId,
                   spreadsheetId    |-> spreadsheetId,
                   spreadsheetTitle |-> spreadsheetTitle,
                   ownerEmail       |-> ownerEmail,
                   createdAt        |-> toISOString(now)]
    IN
    /\ pc[a] = Idle
    /\ collaboration_links' = setItem(collaboration_links, linkId, link)
    /\ goto(a, [at |-> "createOwnerRead", link |-> link])
    /\ UNCHANGED <<owner_links, active_collaborators, collaboration_access,
                   notifications, now, ticks, created, member, last>>

\* line 55: the owner index is read
CreateOwnerRead(a) ==
    /\ pc[a].at = "createOwnerRead"
    /\ goto(a, [at |-> "createOwnerWrite", link |-> pc[a].link,
                ownerLinks |-> getOwnerLinks(pc[a].link.ownerEmail)])
    /\ UNCHANGED <<collaboration_links, owner_links, active_collaborators,
                   collaboration_access, notifications, now, ticks, created, member,
                   last>>

\* mutant: the write re-reads the owner index and appends the id to it
CreateOwnerWrite_patchesStoredIndex(a) ==
    /\ pc[a].at = "createOwnerWrite"
    /\ owner_links' = setItem(owner_links, pc[a].link.ownerEmail,
                              Append(getOwnerLinks(pc[a].link.ownerEmail),
                                     pc[a].link.linkId))
    /\ created' = created \cup {<<pc[a].link.ownerEmail, pc[a].link.spreadsheetId>>}
    /\ last' = Op("createLink", TRUE)
    /\ goto(a, Idle)
    /\ UNCHANGED <<collaboration_links, active_collaborators, collaboration_access,
                   notifications, now, ticks, member>>

\* lines 56-59: the id is pushed onto the list read, the list is written and
\* the link returned
CreateOwnerWrite(a) ==
    /\ pc[a].at = "createOwnerWrite"
    /\ owner_links' = setItem(owner_links, pc[a].link.ownerEmail,
                              Append(pc[a].ownerLinks, pc[a].link.linkId))
    /\ created' = created \cup {<<pc[a].link.ownerEmail, pc[a].link.spreadsheetId>>}
    /\ last' = Op("createLink", TRUE)
    /\ goto(a, Idle)
    /\ UNCHANGED <<collaboration_links, active_collaborators, collaboration_access,
                   notifications, now, ticks, member>>

LinkRaceBegin ==
    /\ linksIssued + createsInFlight < LinkRaceOps
    /\ \E a \in Tabs, d \in Docs, o \in Users, r \in Rand :
            CreateLinkSave(a, d, "Budget2024", o, r)

LinkRaceStep == \E a \in Tabs : CreateOwnerRead(a) \/ CreateOwnerWrite(a)

LinkRaceNext == LinkRaceBegin \/ LinkRaceStep

SpecLinkRace == Init /\ [][LinkRaceNext]_vars

(***************************************************************************)
(* Vocabulary of the properties                                            *)
(***************************************************************************)
\* the roster stored for a document, empty when the key is not stored
stored(d) == IF d \in DOMAIN active_collaborators THEN active_collaborators[d] ELSE <<>>

\* the positions of the entries of a roster with a given email
entriesOf(s, u) == {i \in 1..Len(s) : s[i].email = u}

has(s, u) == entriesOf(s, u) # {}

\* the entry of a roster with a given email (when there is one)
entry(s, u) == s[CHOOSE i \in 1..Len(s) : s[i].email = u]

\* a roster without its liveness flags
sansActive(s) ==
    [i \in 1..Len(s) |->
        [email |-> s[i].email, name |-> s[i].name,
         joinedAt |-> s[i].joinedAt, lastActive |-> s[i].lastActive]]

\* join(l, u, n) is a step of this transition and l resolves to a link of document d
joined(l, u, n, d) ==
    /\ last' = Op("join", TRUE)
    /\ l \in DOMAIN collaboration_links
    /\ collaboration_links[l].spreadsheetId = d
    /\ addCollaborator(l, u, n)

(***************************************************************************)
(* C1: immediately after a successful join(L, U, name), with L a link of   *)
(* document D, the roster read of D holds exactly one entry with email U,  *)
(* and that entry reads isActive = TRUE, whatever preceded the join.       *)
(***************************************************************************)
C1_JoinedOnceAndActive ==
    [][\A l \in LinkIdInputs, u \in Users, n \in Names, d \in Docs :
          joined(l, u, n, d) =>
              LET roster == getActiveCollaborators(d)' IN
              /\ last'.ret = TRUE
              /\ Cardinality(entriesOf(roster, u)) = 1
              /\ \A i \in entriesOf(roster, u) : roster[i].isActive = TRUE]_vars

\* a successful join of a user who was already in the roster and whose
\* entry had gone stale (first join five minutes before)
C1_Witness ==
    /\ last = Op("join", TRUE)
    /\ \E d \in Docs : \E i \in 1..Len(stored(d)) :
          /\ stored(d)[i].lastActive = toISOString(now)
          /\ now - getTime(stored(d)[i].joinedAt) >= fiveMinutes

(***************************************************************************)
(* C2: in every reachable state, between any two localStorage accesses of  *)
(* interleaved join, heartbeat and remove calls, the stored roster of each *)
(* document holds at most one record per email, also after joins of the    *)
(* same user through different links of the same document.                 *)
(***************************************************************************)
C2_OneRecordPerEmail ==
    \A d \in DOMAIN active_collaborators :
        \A i, j \in 1..Len(active_collaborators[d]) :
            active_collaborators[d][i].email = active_collaborators[d][j].email => i = j

\* two tabs have joined the same user to one document through two different
\* links, each has read the roster before the other wrote it (each pushed a
\* new record under its own display name), and both have written
C2_Witness ==
    /\ pc["tab1"].at = "joinAccessRead"
    /\ pc["tab2"].at = "joinAccessRead"
    /\ pc["tab1"].email = pc["tab2"].email
    /\ pc["tab1"].linkId # pc["tab2"].linkId
    /\ pc["tab1"].link.spreadsheetId = pc["tab2"].link.spreadsheetId
    /\ Len(pc["tab1"].collaborators) = 1
    /\ Len(pc["tab2"].collaborators) = 1
    /\ pc["tab1"].collaborators[1].name = "Ann"
    /\ pc["tab2"].collaborators[1].name = "Bob"
    /\ Len(stored(pc["tab1"].link.spreadsheetId)) = 1

(***************************************************************************)
(* C3: the joinedAt of an entry is the time of the first join of that user *)
(* to that document since the last remove of that user; a later join sets  *)
(* lastActive to its own time and leaves joinedAt alone, and so do the     *)
(* heartbeats in between.                                                  *)
(***************************************************************************)
C3_JoinedAtPreserved ==
    [][/\ \A d \in Docs : \A i \in 1..Len(stored(d)') :
            LET e == stored(d)'[i] IN
            /\ <<d, e.email>> \in DOMAIN member'
            /\ e.joinedAt = toISOString(member'[<<d, e.email>>].since)
       /\ \A l \in LinkIdInputs, u \in Users, n \in Names, d \in Docs :
            joined(l, u, n, d) =>
                /\ has(stored(d)', u)
                /\ entry(stored(d)', u).lastActive = toISOString(now')]_vars

\* a second join of the same document, five minutes after the first one
C3_Witness ==
    /\ last = Op("join", TRUE)
    /\ now = 300000
    /\ \E d \in Docs, u \in Users :
          /\ has(stored(d), u)
          /\ <<d, u>> \in DOMAIN member
          /\ member[<<d, u>>].since = 0
          /\ entry(stored(d), u).joinedAt = toISOString(0)
          /\ entry(stored(d), u).lastActive = toISOString(now)

(***************************************************************************)
(* C4: every entry of a roster read at time now has isActive = TRUE        *)
(* exactly when now - lastActive < 5 minutes (300000 ms): refreshed        *)
(* 4 min 59 s ago it reads active, 5 minutes ago or more it reads inactive.*)
(***************************************************************************)
C4_ActiveIffWithinWindow ==
    \A d \in Docs :
        LET roster == getActiveCollaborators(d) IN
        /\ Len(roster) = Len(stored(d))
        /\ \A i \in 1..Len(roster) :
              LET age == now - getTime(stored(d)[i].lastActive) IN
              /\ roster[i].isActive = TRUE <=> age < 300000
              /\ age = 299000 => roster[i].isActive = TRUE
              /\ age >= 300000 => roster[i].isActive = FALSE

\* an entry refreshed exactly five minutes ago, stored as active, reads inactive
C4_Witness ==
    \E d \in Docs : \E i \in 1..Len(stored(d)) :
        /\ now - getTime(stored(d)[i].lastActive) = 300000
        /\ stored(d)[i].isActive = TRUE
        /\ getActiveCollaborators(d)[i].isActive = FALSE

(***************************************************************************)
(* C5: a join with a link id under which no link is stored returns false   *)
(* and writes nothing: no roster, no collaborations index, no link record, *)
(* no owner index, and it dispatches no notification; resolving such an id *)
(* returns null.                                                           *)
(***************************************************************************)
C5_UnknownLinkNoEffect ==
    [][\A l \in LinkIdInputs \ DOMAIN collaboration_links :
          /\ getCollaborationLink(l) = Null
          /\ \A u \in Users, n \in Names :
                (last'.op = "join" /\ addCollaborator(l, u, n)) =>
                    /\ last'.ret = FALSE
                    /\ UNCHANGED <<collaboration_links, owner_links, active_collaborators,
                                   collaboration_access, notifications>>]_vars

\* a join that failed while a link and a roster entry are stored
C5_Witness ==
    /\ last = Op("join", FALSE)
    /\ DOMAIN collaboration_links # {}
    /\ \E d \in Docs : stored(d) # <<>>

(***************************************************************************)
(* C6: after remove(D, U) the roster of D holds no entry with email U, and *)
(* an entry with email U is in the roster only if U joined D since the     *)
(* last remove(D, U); a remove of an email that is not in the roster (so   *)
(* also the second of two removes) leaves the entries of the roster        *)
(* unchanged.                                                              *)
(***************************************************************************)
C6_RemoveDropsAndIsIdempotent ==
    [][/\ \A d \in Docs, u \in Users :
            has(stored(d)', u) => <<d, u>> \in DOMAIN member'
       /\ \A d \in Docs, u \in Users :
            (last'.op = "remove" /\ removeCollaborator(d, u)) =>
                /\ ~has(getActiveCollaborators(d)', u)
                /\ ~has(stored(d), u) =>
                        /\ getActiveCollaborators(d)' = getActiveCollaborators(d)
                        /\ sansActive(stored(d)') = sansActive(stored(d))]_vars

\* a remove has just dropped a user who had joined, and left the other one
C6_Witness ==
    /\ last = Op("remove", TRUE)
    /\ \E d \in Docs, u \in Users :
          /\ includes(getUserCollaborations(u), d)
          /\ ~has(stored(d), u)
          /\ Len(stored(d)) = 1

(***************************************************************************)
(* C7: isOwner(D, U) is true if and only if U created at least one link    *)
(* for document D; a user who only joined D is never reported as owner.    *)
(***************************************************************************)
C7_OwnerIffCreated ==
    \A d \in Docs, u \in Users :
        isSpreadsheetOwner(d, u) <=> <<u, d>> \in created

(***************************************************************************)
(* C8: a linkId is never reused: every createLink issues a link id under   *)
(* which no link is stored yet, and a stored link record is never          *)
(* overwritten.                                                            *)
(***************************************************************************)
C8_LinkIdNeverReused ==
    [][/\ \A d \in Docs, t \in Titles, o \in Users, r \in Rand :
            createCollaborationLink(d, t, o, r) =>
                generateLinkId(now, r) \notin DOMAIN collaboration_links
       /\ \A l \in DOMAIN collaboration_links :
            /\ l \in DOMAIN collaboration_links'
            /\ collaboration_links'[l] = collaboration_links[l]]_vars

(***************************************************************************)
(* C9, as the spec states it: a later join of a user who already has an    *)
(* entry overwrites the stored name with the name given in that join.      *)
(***************************************************************************)
C9_NameLastWriteWins ==
    [][\A l \in LinkIdInputs, u \in Users, n \in Names, d \in Docs :
          (joined(l, u, n, d) /\ has(stored(d), u)) =>
              entry(stored(d)', u).name = n]_vars

(***************************************************************************)
(* C9, amended: a later join of a user who already has an entry leaves the *)
(* stored name as it is, whatever name the join gives; the name of an      *)
(* entry is the one given in the join that created it.                     *)
(***************************************************************************)
C9_NameFirstWriteWins ==
    [][\A l \in LinkIdInputs, u \in Users, n \in Names, d \in Docs :
          joined(l, u, n, d) =>
              /\ has(stored(d)', u)
              /\ entry(stored(d)', u).name =
                    IF has(stored(d), u) THEN entry(stored(d), u).name ELSE n]_vars

\* the last operation is a successful join under the name Bob (the name in
\* its notification), and no roster holds an entry of that name: the join
\* was a re-join of an entry stored under another name
C9_Witness ==
    /\ last = Op("join", TRUE)
    /\ notifications[Len(notifications)].message[1] = "Bob"
    /\ \A d \in Docs : \A i \in 1..Len(stored(d)) : stored(d)[i].name # "Bob"

(***************************************************************************)
(* C10: the collaborations index of a user holds each document at most     *)
(* once, holds D after every successful join of the user to D, and keeps   *)
(* it from then on.                                                        *)
(***************************************************************************)
C10_AccessIndexIsSet ==
    [][/\ \A u \in Users :
            LET a == getUserCollaborations(u)' IN
            \A i, j \in 1..Len(a) : a[i] = a[j] => i = j
       /\ \A l \in LinkIdInputs, u \in Users, n \in Names, d \in Docs :
            joined(l, u, n, d) => includes(getUserCollaborations(u)', d)
       /\ \A u \in Users, d \in Docs :
            includes(getUserCollaborations(u), d) =>
                includes(getUserCollaborations(u)', d)]_vars

\* a user has joined one document through two different links; the index
\* lists the document once
C10_Witness ==
    \E d \in Docs, u \in Users :
        /\ <<d, u>> \in DOMAIN member
        /\ Cardinality(member[<<d, u>>].via) = 2
        /\ getUserCollaborations(u) = <<d>>

(***************************************************************************)
(* C11: every successful join through a stored link L, first join or       *)
(* re-join, dispatches exactly one "collaboration_joined" notification,    *)
(* addressed to the ownerEmail stored in L, with a message built from the  *)
(* name given in the join and the title stored in L; every step that is    *)
(* not a successful join (createLink, failed join, heartbeat, remove,      *)
(* clock advance) leaves the notifications alone, so that their number is  *)
(* the number of successful joins.                                         *)
(***************************************************************************)
C11_OneNotificationPerJoin ==
    [][/\ \A l \in DOMAIN collaboration_links, u \in Users, n \in Names :
            (last'.op = "join" /\ addCollaborator(l, u, n)) =>
                /\ last'.ret = TRUE
                /\ notifications' =
                        Append(notifications,
                               [recipient |-> collaboration_links[l].ownerEmail,
                                kind      |-> "collaboration_joined",
                                message   |-> <<n, " joined ",
                                                collaboration_links[l].spreadsheetTitle>>])
       /\ Len(notifications') =
                Len(notifications) + IF last' = Op("join", TRUE) THEN 1 ELSE 0
       /\ last' # Op("join", TRUE) => notifications' = notifications]_vars

\* one user has joined twice through a link of the other user under the
\* second title: one roster entry, two notifications to the owner of the link
C11_Witness ==
    /\ last = Op("join", TRUE)
    /\ Len(notifications) = 2
    /\ notifications[1] = notifications[2]
    /\ notifications[2].recipient = "b@x.com"
    /\ notifications[2].message = <<"Ann", " joined ", "Budget2025">>
    /\ \E d \in Docs :
          /\ Len(stored(d)) = 1
          /\ stored(d)[1].email = "a@x.com"
          /\ \A e \in Docs \ {d} : stored(e) = <<>>
    /\ getUserCollaborations("b@x.com") = <<>>

(***************************************************************************)
(* C12: heartbeat(D, U) for an email U without an entry in the roster of D *)
(* completes and writes nothing: the four stores and the notifications are *)
(* as before, no key is created for D when no roster of D was stored, and  *)
(* no entry for U appears.                                                 *)
(***************************************************************************)
C12_HeartbeatOfAbsentIsNoOp ==
    [][\A d \in Docs, u \in Users :
          (last'.op = "heartbeat" /\ updateCollaboratorActivity(d, u)
                /\ ~has(stored(d), u)) =>
              /\ last' = Op("heartbeat", TRUE)
              /\ UNCHANGED <<collaboration_links, owner_links, active_collaborators,
                             collaboration_access, notifications>>
              /\ DOMAIN active_collaborators' = DOMAIN active_collaborators
              /\ ~has(stored(d)', u)]_vars

\* a heartbeat has just run; one document has no roster stored, and the only
\* entry of the other one was not refreshed by it: the heartbeat was for an
\* email without entry
C12_Witness ==
    /\ last = Op("heartbeat", TRUE)
    /\ "d2" \notin DOMAIN active_collaborators
    /\ Len(stored("d1")) = 1
    /\ getTime(stored("d1")[1].lastActive) < now

(***************************************************************************)
(* Steps of the presence operations, for the properties below              *)
(***************************************************************************)
\* this transition is a successful join, a heartbeat or a remove of email u
\* on document d
targets(d, u) ==
    \/ last'.op = "heartbeat" /\ updateCollaboratorActivity(d, u)
    \/ last'.op = "remove" /\ removeCollaborator(d, u)
    \/ \E l \in DOMAIN collaboration_links, n \in Names : joined(l, u, n, d)

\* this transition writes the roster of d on behalf of email u
writesRoster(d, u) ==
    \/ last'.op = "heartbeat" /\ updateCollaboratorActivity(d, u) /\ has(stored(d), u)
    \/ last'.op = "remove" /\ removeCollaborator(d, u)
    \/ \E l \in DOMAIN collaboration_links, n \in Names : joined(l, u, n, d)

(***************************************************************************)
(* C13, as the spec states it: a join, heartbeat or remove that targets    *)
(* email U of document D leaves the stored isActive of every other entry   *)
(* of D unchanged.                                                         *)
(***************************************************************************)
C13_StoredFlagOfOthersUnchanged ==
    [][\A d \in Docs, u \in Users :
          targets(d, u) =>
              \A i \in 1..Len(stored(d)) :
                  stored(d)[i].email # u =>
                      /\ has(stored(d)', stored(d)[i].email)
                      /\ entry(stored(d)', stored(d)[i].email).isActive =
                            stored(d)[i].isActive]_vars

(***************************************************************************)
(* C13, amended: a join, heartbeat or remove that writes the roster of D   *)
(* on behalf of email U stores, for every other entry of D, the isActive   *)
(* recomputed at the time of the write (now - lastActive < 300000 ms) and  *)
(* leaves the other fields of that entry as they were; the rosters of the  *)
(* other documents are left as stored.                                     *)
(***************************************************************************)
C13_StoredFlagOfOthersRecomputed ==
    [][\A d \in Docs, u \in Users :
          writesRoster(d, u) =>
              /\ \A i \in 1..Len(stored(d)) :
                    LET e == stored(d)[i] IN
                    e.email # u =>
                        /\ has(stored(d)', e.email)
                        /\ entry(stored(d)', e.email) =
                              [e EXCEPT !.isActive =
                                    (now - getTime(e.lastActive) < 300000)]
              /\ \A o \in Docs \ {d} :
                    /\ stored(o)' = stored(o)
                    /\ o \in DOMAIN active_collaborators' <=>
                            o \in DOMAIN active_collaborators]_vars

\* a join, heartbeat or remove has just written a roster in which an entry
\* is stored as inactive: the flag recomputed for another email five
\* minutes after its last refresh
C13_Witness ==
    /\ last.op \in {"join", "heartbeat", "remove"}
    /\ \E d \in Docs : \E i \in 1..Len(stored(d)) :
          /\ stored(d)[i].isActive = FALSE
          /\ now - getTime(stored(d)[i].lastActive) = 300000

(***************************************************************************)
(* C14: lost update under concurrency.  With the roster read and the       *)
(* roster write of a join as separate steps of independent tabs, the write *)
(* stores the array the tab read (with its own entry updated or pushed),   *)
(* whatever the store holds at the time of the write, so that an entry     *)
(* another tab has written since that read is dropped; a join that has     *)
(* written always returns true.  The witness is the execution of the       *)
(* claim: two joins of different users to one document, both past all      *)
(* their writes and about to return true, and a roster of one entry.       *)
(***************************************************************************)
C14_LostUpdateMechanism ==
    [][\A a \in Tabs :
          /\ (pc[a].at = "joinWrite" /\ JoinWrite(a)) =>
                LET d == pc[a].link.spreadsheetId IN
                /\ stored(d)' = pc[a].collaborators
                /\ \A u \in Users :
                      (has(stored(d), u) /\ ~has(pc[a].collaborators, u)) =>
                          ~has(stored(d)', u)
          /\ (pc[a].at = "joinNotify" /\ JoinNotify(a)) =>
                last' = Op("join", TRUE)]_vars

\* both tabs are in a join of the same document for different emails, each
\* has pushed its entry onto the empty roster it read, both have written the
\* roster and the index, and the stored roster holds one entry
C14_Witness ==
    /\ pc["tab1"].at = "joinNotify"
    /\ pc["tab2"].at = "joinNotify"
    /\ pc["tab1"].email # pc["tab2"].email
    /\ pc["tab1"].link.spreadsheetId = pc["tab2"].link.spreadsheetId
    /\ Len(pc["tab1"].collaborators) = 1
    /\ Len(pc["tab2"].collaborators) = 1
    /\ Len(stored(pc["tab1"].link.spreadsheetId)) = 1
    /\ includes(getUserCollaborations(pc["tab1"].email), pc["tab1"].link.spreadsheetId)
    /\ includes(getUserCollaborations(pc["tab2"].email), pc["tab2"].link.spreadsheetId)

(***************************************************************************)
(* C15: roster(D) returns the entries in join order.  The read returns the *)
(* entries in the stored order; that order is the order of the first joins *)
(* of the members since their last removal (a later position never has an  *)
(* earlier first join); a re-join or a heartbeat of a member leaves the     *)
(* order as it is, a remove takes the email out and keeps the order of the *)
(* others, and a join of an email that is not in the roster (never joined, *)
(* or removed since) puts it last.                                         *)
(***************************************************************************)
emails(s) == [i \in 1..Len(s) |-> s[i].email]

C15_RosterInJoinOrder ==
    [][/\ active_collaborators' # active_collaborators =>
            \A d \in Docs :
                /\ emails(getActiveCollaborators(d)') = emails(stored(d)')
                /\ \A i, j \in 1..Len(stored(d)') :
                      i < j => member'[<<d, stored(d)'[i].email>>].since
                                    <= member'[<<d, stored(d)'[j].email>>].since
       /\ last'.op = "heartbeat" =>
            \A d \in Docs, u \in Users :
                updateCollaboratorActivity(d, u) =>
                    emails(stored(d)') = emails(stored(d))
       /\ last'.op = "remove" =>
            \A d \in Docs, u \in Users :
                removeCollaborator(d, u) =>
                    emails(stored(d)') = SelectSeq(emails(stored(d)), LAMBDA e : e # u)
       /\ last' = Op("join", TRUE) =>
            \A l \in DOMAIN collaboration_links, u \in Users, n \in Names :
                LET d == collaboration_links[l].spreadsheetId IN
                joined(l, u, n, d) =>
                    emails(stored(d)') =
                        IF has(stored(d), u)
                        THEN emails(stored(d))
                        ELSE Append(emails(stored(d)), u)]_vars

\* a roster of two entries whose first entry joined first and was refreshed
\* after the second one joined: it is still first
C15_Witness ==
    \E d \in Docs :
        /\ Len(stored(d)) = 2
        /\ getTime(stored(d)[1].joinedAt) < getTime(stored(d)[2].joinedAt)
        /\ getTime(stored(d)[1].lastActive) > getTime(stored(d)[2].joinedAt)

(***************************************************************************)
(* C16: parseCollaborationLink returns the value of the collab parameter   *)
(* of the URL the window is at, and null when the URL has no collab        *)
(* parameter ("https://x?collab=abc123" gives "abc123", "https://x" gives  *)
(* null); for every link id the registry has issued and every origin, the  *)
(* URL getCollaborationLinkUrl builds for it parses back to the text of    *)
(* that link id.                                                           *)
(***************************************************************************)
C16_ParseRoundTrip ==
    /\ parseCollaborationLink(<<"https://x", "?", "collab", "=", "abc123">>)
            = String(<<"abc123">>)
    /\ parseCollaborationLink(<<"https://x">>) = Null
    /\ \A href \in SampleUrls :
            LET q == indexOf(href, "?")
                h == indexOf(href, "#")
                c == indexOf(href, "collab")
            IN (c = 0 \/ q = 0 \/ c < q \/ (h # 0 /\ h < c)) =>
                    parseCollaborationLink(href) = Null
    /\ \A l \in DOMAIN collaboration_links, o \in Origins :
            parseCollaborationLink(getCollaborationLinkUrl(l, o)) = String(linkIdText(l))
    /\ last.op = "parse" =>
            \A l \in DOMAIN collaboration_links, o \in Origins :
                last.ret.href = getCollaborationLinkUrl(l, o) =>
                    last.ret.linkId = String(linkIdText(l))

\* a window opened at the URL handed out for a link issued at 299000 ms has
\* parsed the id of that link
C16_Witness ==
    /\ last.op = "parse"
    /\ last.ret.linkId # Null
    /\ \E l \in DOMAIN collaboration_links :
          /\ l[2] = 299000
          /\ last.ret.href = getCollaborationLinkUrl(l, "http://localhost:3000")
          /\ last.ret.linkId = String(<<"collab", "_", "299000", "_", l[3]>>)

(***************************************************************************)
(* C17: a failure of the notification dispatch is not observed by join:    *)
(* when the dispatch throws during join(L, U, name) with L stored, the     *)
(* join still returns true, with the entry of U in the roster and the      *)
(* document in the collaborations index of U.                              *)
(***************************************************************************)
C17_DispatchFailureNotObserved ==
    [][\A l \in DOMAIN collaboration_links, u \in Users, n \in Names :
          (last'.op = "join" /\ addCollaboratorThrows(l, u, n, "notify")) =>
              LET d == collaboration_links[l].spreadsheetId IN
              /\ last' = Op("join", TRUE)
              /\ has(stored(d)', u)
              /\ includes(getUserCollaborations(u)', d)]_vars

(***************************************************************************)
(* C18: no operation leaves partial progress when a store write fails:     *)
(* after a createLink or a join in which a setItem throws, the four stores *)
(* are as they were before the operation (no link record without its       *)
(* owner-index entry, no roster entry without the collaborations-index     *)
(* entry).                                                                 *)
(***************************************************************************)
C18_FailedWriteLeavesStore ==
    [][/\ \A d \in Docs, t \in Titles, o \in Users, r \in Rand :
            \A failAt \in {"collaboration_links", "owner_links"} :
                (last'.op = "createLink"
                    /\ createCollaborationLinkThrows(d, t, o, r, failAt)) =>
                        UNCHANGED store
       /\ \A l \in DOMAIN collaboration_links, u \in Users, n \in Names :
            \A failAt \in {"active_collaborators", "collaboration_access"} :
                (last'.op = "join" /\ addCollaboratorThrows(l, u, n, failAt)) =>
                    UNCHANGED store]_vars

(***************************************************************************)
(* C19: for an email U that has an entry in the roster of D, heartbeat(D,  *)
(* U) and join(L, U, name) with L a link of D have the same effect on the  *)
(* stored roster of D: from one store and one clock value, the roster a    *)
(* join stores is the one the heartbeat would store, and the roster a      *)
(* heartbeat stores is the one a join under any name would store (same     *)
(* entries, order, name, joinedAt, lastActive, isActive).                  *)
(***************************************************************************)
C19_HeartbeatEqualsRejoin ==
    [][/\ last' = Op("join", TRUE) =>
            \A l \in DOMAIN collaboration_links, u \in Users, n \in Names :
                LET d == collaboration_links[l].spreadsheetId IN
                (joined(l, u, n, d) /\ has(stored(d), u)) =>
                    stored(d)' = touch(getActiveCollaborators(d), u)
       /\ last'.op = "heartbeat" =>
            \A d \in Docs, u \in Users :
                (updateCollaboratorActivity(d, u) /\ has(stored(d), u)) =>
                    \A n \in Names :
                        stored(d)' = updateOrPush(getActiveCollaborators(d),
                                                  newCollaborator(u, n))]_vars

\* a join under a name that is not the stored one has just refreshed an
\* entry created earlier, in a roster of two entries
C19_Witness ==
    /\ last = Op("join", TRUE)
    /\ \E d \in Docs : \E i \in 1..Len(stored(d)) :
          /\ Len(stored(d)) = 2
          /\ stored(d)[i].lastActive = toISOString(now)
          /\ getTime(stored(d)[i].joinedAt) < now
          /\ stored(d)[i].name # notifications[Len(notifications)].message[1]
          /\ getTime(stored(d)[3 - i].lastActive) < now

(***************************************************************************)
(* C20: after createLink(D, T, O) has returned link L, with operations     *)
(* executed one at a time, resolving L.linkId returns a record with        *)
(* document D, title T and owner O, the owner index of O holds L.linkId    *)
(* exactly once, and the owner index of every other user is as before.     *)
(***************************************************************************)
C20_CreateLinkPostcondition ==
    [][\A d \in Docs, t \in Titles, o \in Users, r \in Rand :
          (last'.op = "createLink" /\ createCollaborationLink(d, t, o, r)) =>
              LET linkId == generateLinkId(now, r)
                  link == getCollaborationLink(linkId)'
                  ownerLinks == getOwnerLinks(o)'
              IN
              /\ link # Null
              /\ link.linkId = linkId
              /\ link.spreadsheetId = d
              /\ link.spreadsheetTitle = t
              /\ link.ownerEmail = o
              /\ Cardinality({i \in 1..Len(ownerLinks) : ownerLinks[i] = linkId}) = 1
              /\ \A p \in Users \ {o} : getOwnerLinks(p)' = getOwnerLinks(p)]_vars

(***************************************************************************)
(* C21: within one successful join the steps occur in the order: link      *)
(* resolved, roster of D written (with the entry of U in it), document     *)
(* recorded in the collaborations index of U, owner notified, true         *)
(* returned.  A tab moves through the statements of a call in that order   *)
(* only; the roster write puts U in the stored roster and the index step   *)
(* stores D in the index of U unless the index read already held it, both  *)
(* before any notification; and a notification is dispatched only by the   *)
(* last step of a join that has taken both steps, the step that returns    *)
(* true.                                                                   *)
(***************************************************************************)
stepOrder ==
    { <<"idle", "joinRead">>, <<"joinRead", "joinWrite">>,
      <<"joinWrite", "joinAccessRead">>, <<"joinAccessRead", "joinAccessWrite">>,
      <<"joinAccessWrite", "joinNotify">>, <<"joinNotify", "idle">>,
      <<"idle", "heartbeatWrite">>, <<"heartbeatWrite", "idle">>,
      <<"idle", "removeWrite">>, <<"removeWrite", "idle">> }

C21_JoinStepOrder ==
    [][/\ \A a \in Tabs :
            /\ pc'[a] # pc[a] => <<pc[a].at, pc'[a].at>> \in stepOrder
            /\ (pc[a].at = "idle" /\ pc'[a].at = "joinRead") =>
                    /\ pc'[a].linkId \in DOMAIN collaboration_links
                    /\ pc'[a].link = collaboration_links[pc'[a].linkId]
                    /\ UNCHANGED <<store, notifications>>
            /\ (pc[a].at = "joinWrite" /\ pc'[a].at = "joinAccessRead") =>
                    /\ has(stored(pc[a].link.spreadsheetId)', pc[a].email)
                    /\ has(pc'[a].collaborators, pc[a].email)
                    /\ UNCHANGED <<collaboration_access, notifications>>
            /\ (pc[a].at = "joinAccessWrite" /\ pc'[a].at = "joinNotify") =>
                    /\ \/ /\ includes(pc[a].userAccess, pc[a].link.spreadsheetId)
                          /\ UNCHANGED collaboration_access
                       \/ getUserCollaborations(pc[a].email)' =
                                Append(pc[a].userAccess, pc[a].link.spreadsheetId)
                    /\ UNCHANGED <<active_collaborators, notifications>>
            /\ pc[a].at = "joinNotify" => has(pc[a].collaborators, pc[a].email)
       /\ notifications' # notifications =>
            \E a \in Tabs :
                /\ pc[a].at = "joinNotify"
                /\ pc'[a] = Idle
                /\ last' = Op("join", TRUE)
                /\ UNCHANGED store
                /\ notifications' =
                        Append(notifications,
                               [recipient |-> pc[a].link.ownerEmail,
                                kind      |-> "collaboration_joined",
                                message   |-> <<pc[a].name, " joined ",
                                                pc[a].link.spreadsheetTitle>>])]_vars

\* the join of one tab has returned true after notifying the owner, with its
\* entry in the roster and the document in its index, while the other tab is
\* between the roster read and the roster write of a join of another email
C21_Witness ==
    /\ last = Op("join", TRUE)
    /\ Len(notifications) = 1
    /\ notifications[1].message[1] = "Ann"
    /\ pc["tab1"] = Idle
    /\ pc["tab2"].at = "joinWrite"
    /\ \E u \in Users :
          /\ u # pc["tab2"].email
          /\ has(stored("d1"), u)
          /\ includes(getUserCollaborations(u), "d1")
          /\ ~has(pc["tab2"].collaborators, u)

(***************************************************************************)
(* C22: liveness expiry over time.  Once the clock is 5 minutes (300000    *)
(* ms) or more past the lastActive of an entry, every roster read returns  *)
(* the entry as inactive; an entry read as inactive is read as inactive    *)
(* after every step that does not refresh it (same lastActive), whatever   *)
(* time passes; right after a join or a heartbeat of its email it is read  *)
(* as active; and an advance of the clock leaves the stored roster and the *)
(* emails of the roster read as they were.                                 *)
(***************************************************************************)
C22_ExpiryOverTime ==
    [][/\ \A d \in Docs :
            LET before == getActiveCollaborators(d)
                after  == getActiveCollaborators(d)'
            IN
            /\ last'.op = "tick" =>
                    /\ stored(d)' = stored(d)
                    /\ emails(after) = emails(before)
            /\ \A i \in 1..Len(after) :
                    now' - getTime(after[i].lastActive) >= 300000 =>
                        after[i].isActive = FALSE
            /\ \A u \in Users :
                    (/\ has(before, u) /\ has(after, u)
                     /\ entry(before, u).isActive = FALSE
                     /\ entry(after, u).lastActive = entry(before, u).lastActive) =>
                        entry(after, u).isActive = FALSE
       /\ last'.op = "heartbeat" =>
            \A d \in Docs, u \in Users :
                (updateCollaboratorActivity(d, u) /\ has(stored(d), u)) =>
                    entry(getActiveCollaborators(d)', u).isActive = TRUE
       /\ last' = Op("join", TRUE) =>
            \A l \in DOMAIN collaboration_links, u \in Users, n \in Names :
                LET d == collaboration_links[l].spreadsheetId IN
                joined(l, u, n, d) =>
                    entry(getActiveCollaborators(d)', u).isActive = TRUE]_vars

\* ten minutes after the start, a heartbeat has just refreshed an entry that
\* joined at the start and it reads active, while the other entry, last
\* refreshed at the start, is still there and reads inactive
C22_Witness ==
    /\ last = Op("heartbeat", TRUE)
    /\ now = 600000
    /\ \E i \in 1..2 :
          LET roster == getActiveCollaborators("d1") IN
          /\ Len(roster) = 2
          /\ roster[i].joinedAt = toISOString(0)
          /\ roster[i].lastActive = toISOString(600000)
          /\ roster[i].isActive = TRUE
          /\ roster[3 - i].lastActive = toISOString(0)
          /\ roster[3 - i].isActive = FALSE

(***************************************************************************)
(* C23: join, heartbeat and remove never modify a link record or an owner  *)
(* index, and they write only the roster of their target document: the     *)
(* rosters of all other documents are as before (and no roster key         *)
(* appears for them); heartbeat and remove leave the collaborations index  *)
(* of every user as it was, and a join that of every other user.           *)
(***************************************************************************)
C23_PresenceOpsFrame ==
    [][/\ last'.op \in {"join", "heartbeat", "remove"} =>
            UNCHANGED <<collaboration_links, owner_links>>
       /\ last'.op \in {"heartbeat", "remove"} => UNCHANGED collaboration_access
       /\ last'.op \in {"join", "heartbeat", "remove"} =>
            \A d \in Docs, u \in Users :
                targets(d, u) =>
                    /\ \A o \in Docs \ {d} :
                          /\ stored(o)' = stored(o)
                          /\ o \in DOMAIN active_collaborators' <=>
                                o \in DOMAIN active_collaborators
                    /\ \A p \in Users \ {u} :
                          getUserCollaborations(p)' = getUserCollaborations(p)]_vars

\* a user who had joined both documents has just been removed from one of
\* them: the entry in the roster of the other document is still there
C23_Witness ==
    /\ last = Op("remove", TRUE)
    /\ \E d \in Docs, o \in Docs, u \in Users :
          /\ d # o
          /\ includes(getUserCollaborations(u), d)
          /\ includes(getUserCollaborations(u), o)
          /\ ~has(stored(d), u)
          /\ has(stored(o), u)
          /\ Cardinality(DOMAIN collaboration_links) = 2

(***************************************************************************)
(* C24: in every reachable state, also between the two writes of a         *)
(* createLink and with the createLink calls of two tabs interleaved, every *)
(* link id listed in the index of any owner resolves to a stored link      *)
(* record: the owner index never dangles.                                  *)
(***************************************************************************)
C24_OwnerIndexNeverDangles ==
    \A o \in DOMAIN owner_links :
        \A i \in 1..Len(owner_links[o]) :
            /\ owner_links[o][i] \in DOMAIN collaboration_links
            /\ getCollaborationLink(owner_links[o][i]) # Null
            /\ getCollaborationLink(owner_links[o][i]).linkId = owner_links[o][i]

\* one tab is between the two writes of a createLink (its record is stored
\* and listed in no index) while the index of the owner lists a link of a
\* call that has completed, and the other tab is in a createLink too
C24_Witness ==
    /\ pc["tab1"].at = "createOwnerWrite"
    /\ pc["tab2"].at = "createOwnerRead"
    /\ pc["tab1"].link.linkId \in DOMAIN collaboration_links
    /\ \A o \in DOMAIN owner_links : ~includes(owner_links[o], pc["tab1"].link.linkId)
    /\ Len(getOwnerLinks(pc["tab1"].link.ownerEmail)) = 1

(***************************************************************************)
(* C25, as stated: createLink calls of one owner that interleave at the    *)
(* read and the write of the owner index lose no index entry: once the     *)
(* calls have completed, every stored link record is listed in the index   *)
(* of its owner, and the owner is found to own the document of the link.   *)
(***************************************************************************)
C25_NoIndexEntryLost ==
    (\A a \in Tabs : pc[a] = Idle) =>
        \A l \in DOMAIN collaboration_links :
            /\ includes(getOwnerLinks(collaboration_links[l].ownerEmail), l)
            /\ isSpreadsheetOwner(collaboration_links[l].spreadsheetId,
                                  collaboration_links[l].ownerEmail)

(***************************************************************************)
(* C25, amended: the write of the owner index stores the list the call has *)
(* read earlier with the new id appended, whatever the index holds at the  *)
(* time of the write: the id of the call is listed after the write, an id  *)
(* another call has stored since the read is listed no more, and the link  *)
(* records and the indexes of the other owners are left as they are.       *)
(***************************************************************************)
C25_IndexWriteStoresListRead ==
    [][\A a \in Tabs :
          (pc[a].at = "createOwnerWrite" /\ pc'[a] = Idle) =>
              \A o \in {pc[a].link.ownerEmail} :
                  /\ getOwnerLinks(o)' = Append(pc[a].ownerLinks, pc[a].link.linkId)
                  /\ includes(getOwnerLinks(o)', pc[a].link.linkId)
                  /\ \A l \in DOMAIN collaboration_links :
                         (includes(getOwnerLinks(o), l) /\ ~includes(pc[a].ownerLinks, l)
                              /\ l # pc[a].link.linkId)
                             => ~includes(getOwnerLinks(o)', l)
                  /\ UNCHANGED collaboration_links
                  /\ \A u \in Users \ {o} : getOwnerLinks(u)' = getOwnerLinks(u)
      ]_vars

\* two createLink calls of one owner for two documents have completed, both
\* link records are stored, the index of the owner lists one of the two ids
\* and the owner is not found to own the document of the other
C25_Witness ==
    /\ \A a \in Tabs : pc[a] = Idle
    /\ last.op = "createLink"
    /\ \E o \in Users, l1, l2 \in DOMAIN collaboration_links :
           /\ l1 # l2
           /\ DOMAIN collaboration_links = {l1, l2}
           /\ collaboration_links[l1].ownerEmail = o
           /\ collaboration_links[l2].ownerEmail = o
           /\ collaboration_links[l1].spreadsheetId # collaboration_links[l2].spreadsheetId
           /\ getOwnerLinks(o) = <<l2>>
           /\ \A u \in Users \ {o} : getOwnerLinks(u) = <<>>
           /\ ~isSpreadsheetOwner(collaboration_links[l1].spreadsheetId, o)
           /\ isSpreadsheetOwner(collaboration_links[l2].spreadsheetId, o)

(***************************************************************************)
(* C26: a remove of email U from document D drops the roster entry only:   *)
(* the access index of U is left as it is, so after a join and a remove    *)
(* the index of U still lists D while the roster of D has no entry of U;   *)
(* a later join of U finds no entry and pushes a fresh record, whose       *)
(* joinedAt is the time of that join, and adds no second D to the index.   *)
(***************************************************************************)
C26_RemoveKeepsAccessIndex ==
    [][\A d \in Docs, u \in Users :
          /\ (last'.op = "remove" /\ removeCollaborator(d, u)) =>
                /\ UNCHANGED collaboration_access
                /\ ~has(stored(d)', u)
                /\ includes(getUserCollaborations(u), d) =>
                        includes(getUserCollaborations(u)', d)
          /\ \A l \in DOMAIN collaboration_links, n \in Names :
                (joined(l, u, n, d) /\ ~has(stored(d), u)) =>
                    /\ Cardinality(entriesOf(stored(d)', u)) = 1
                    /\ entry(stored(d)', u) = [email      |-> u,
                                               name       |-> n,
                                               joinedAt   |-> toISOString(now),
                                               lastActive |-> toISOString(now),
                                               isActive   |-> TRUE]
                    /\ includes(getUserCollaborations(u), d) =>
                            UNCHANGED collaboration_access
      ]_vars

\* email a has joined d1 under one name, has been removed, and has joined
\* again at a later instant under another name: the entry carries the name
\* and instant of the later join, and the index of a lists d1 once
C26_Witness ==
    /\ last = Op("join", TRUE)
    /\ now > 0
    /\ Len(notifications) = 2
    /\ notifications[1].message[1] # notifications[2].message[1]
    /\ getUserCollaborations("b@x.com") = <<>>
    /\ getUserCollaborations("a@x.com") = <<"d1">>
    /\ Len(stored("d1")) = 1
    /\ stored("d1")[1].email = "a@x.com"
    /\ stored("d1")[1].name = notifications[2].message[1]
    /\ stored("d1")[1].joinedAt = toISOString(now)

====
